---- MODULE Spec2Model ----
(***************************************************************************)
(* State-machine model of WearableTurnSignal.ino: the dispatcher loop(),   *)
(* the input sampler readButtonStates(), the three animators               *)
(* leftTurnSignal(), rightTurnSignal(), engageHazardLights(), the all-off  *)
(* action disableSignals() and the buzzer driver buzzerClick().            *)
(*                                                                         *)
(* The sketch is one thread of control.  Every digitalRead, digitalWrite,  *)
(* delay and millis() call of the source is one step of the model, so the  *)
(* two buttons (driven by the wearer) can change between any two of them.  *)
(* pc is the position of the thread; ret is the return address of the      *)
(* leaf call in progress (readButtonStates, disableSignals, buzzerClick    *)
(* call nothing themselves, and an animator always returns to loop()).     *)
(***************************************************************************)
EXTENDS Integers, Sequences, FiniteSets, TLC

\* ---------------------------------------------------------------- constants

\* Arduino.h levels
LOW == FALSE
HIGH == TRUE

leftButtonPin == 13
rightButtonPin == 8
\* A0 is digital pin 14 on the ATmega328 boards the sketch names
buzzerPin == 14
num_signal_lights == 4
\* C arrays are indexed from 0, TLA+ sequences from 1: slot s is element s + 1
leftSignalPins == <<9, 10, 11, 12>>
rightSignalPins == <<3, 4, 5, 6>>
\* the value the sketch gives the global `interval`
interval_ms == 500
\* the 8 on/off pairs of a click and the half-period of each, in microseconds
click_cycles == 8
click_half_us == 128

\* enum blinkerstate
off == "off"
left == "left"
right == "right"
hazards == "hazards"
blinkerstate == {off, left, right, hazards}

\* ------------------------------------------------------------------- bounds

\* millis() is an unsigned counter that wraps; the general specification
\* keeps MillisBits bits of it and scales `interval` down to IntervalBound ms,
\* so that whole chase cycles and the wrap fit a finite state space.
MillisBits == 3
IntervalBound == 3
\* history counters saturate here
CountCap == 2

\* the scripted scenario: no button for BootMs after boot, then the left
\* button for HoldMs, then no button again; the run is followed for SettleMs
\* more.  It keeps ScenarioBits bits of millis(), enough never to wrap.
BootMs == 2000
HoldMs == 2100
SettleMs == 10
ScenarioBits == 13

\* ---------------------------------------------------------------- the state

VARIABLES
    pc,             \* position of the thread
    ret,            \* return address of the leaf call in progress
    pin,            \* level of every pin the sketch binds
    now,            \* what millis() returns
    interval,       \* the global `interval`
    millisMod,      \* modulus of the millis() counter
    selection,      \* loop(): local `selection`
    state,          \* readButtonStates(): local `state` / its return value
    leftRead,       \* readButtonStates(): outcome of the first digitalRead
    left_turn,      \* leftTurnSignal(): local flag
    right_turn,     \* rightTurnSignal(): local flag
    hazard_lights,  \* engageHazardLights(): local flag
    i,              \* loop index of the animator in progress
    start_time,     \* local start_time of the animator in progress
    di,             \* disableSignals(): loop index
    bi,             \* buzzerClick(): loop index
    \* history variables: they record what has happened and steer nothing
    stableIn,       \* the buttons have not moved since the sample in progress began
    lastPin,        \* chase: the signal pin activated last in this call (0: none)
    blanked,        \* chase: disableSignals() has returned since lastPin went HIGH
    away,           \* chase: the buttons moved to another mode and have not moved since
    aActs,          \* chase: outputs activated since then
    aClicks,        \* chase: clicks begun since then
    aSamples,       \* chase: samples begun since then
    hzSeen,         \* hazards: what the outputs showed when the last sample began
    hzClicks,       \* hazards: clicks begun since the last sample began
    pairs,          \* HIGH-to-LOW edges of the buzzer in the current or last click
    script,         \* "free", or the stage of the scripted scenario
    nActs,          \* scenario: outputs activated so far
    nClicks,        \* scenario: clicks begun so far
    waited,         \* ms of millis() time passed in the wait in progress
    owed,           \* chase: slot activations not yet clicked for
    dBlank,         \* a disableSignals() has returned since the last dispatch
    sampled,        \* a sample has begun in the animator call in progress
    seenModes       \* the modes the buttons selected during the sample in progress

prog == <<pc, ret, pin, now, interval, millisMod, selection, state, leftRead,
          left_turn, right_turn, hazard_lights, i, start_time, di, bi>>

history == <<stableIn, lastPin, blanked, away, aActs, aClicks, aSamples,
             hzSeen, hzClicks, pairs, script, nActs, nClicks, waited,
             owed,
             dBlank,
             sampled,
             seenModes>>

vars == <<prog, history>>

SignalPins == {leftSignalPins[s] : s \in 1..num_signal_lights}
                 \cup {rightSignalPins[s] : s \in 1..num_signal_lights}
Pins == SignalPins \cup {leftButtonPin, rightButtonPin, buzzerPin}

Slots == 0..(num_signal_lights - 1)

\* ------------------------------------------------------------- the hardware

digitalRead(p) == pin[p]

digitalWrite(p, v) == pin' = [pin EXCEPT ![p] = v]

\* mutant: the difference is taken without wrapping (signed, unbounded)
Elapsed_signed == now - start_time

\* millis() - start_time in unsigned arithmetic of the counter's width
Elapsed == (now - start_time) % millisMod

\* A scripted button change happens at its instant: millis() does not pass
\* that instant before the change has happened (never so when script = "free").
ChangeDue ==
    \/ script = "boot" /\ now = BootMs
    \/ script = "held" /\ now = BootMs + HoldMs
    \/ script = "released" /\ now = BootMs + HoldMs + SettleMs

\* delay(ms): millis() is ms later when it returns
delay(ms) ==
    /\ ~ChangeDue
    /\ now' = (now + ms) % millisMod

\* delayMicroseconds(us) inside a click, h half-periods of which have passed:
\* millis() ticks when the time spent in the click crosses a millisecond
delayMicroseconds(us, h) ==
    LET ticks == ((us * (h + 1)) \div 1000) - ((us * h) \div 1000)
    IN  /\ ticks > 0 => ~ChangeDue
        /\ now' = (now + ticks) % millisMod

\* ------------------------------------------------------------------- labels

RbsLabels == {"rbs_readLeft", "rbs_readRight", "rbs_delay"}
DsLabels == {"ds_for", "ds_left", "ds_right"}
BcLabels == {"bc_for", "bc_high", "bc_delay1", "bc_low", "bc_delay2"}
LeafLabels == RbsLabels \cup DsLabels \cup BcLabels
LoopLabels == {"loop_sample", "loop_dispatch", "loop_end"}
LtsLabels == {"lts_while", "lts_for", "lts_write", "lts_click", "lts_start",
              "lts_wait", "lts_poll"}
RtsLabels == {"rts_while", "rts_for", "rts_write", "rts_click", "rts_start",
              "rts_wait", "rts_poll"}
EhlLabels == {"ehl_while", "ehl_click1", "ehl_start1", "ehl_wait1", "ehl_poll1",
              "ehl_on_for", "ehl_on_left", "ehl_on_right", "ehl_click2",
              "ehl_start2", "ehl_wait2", "ehl_poll2"}

\* calls of the leaf functions: the callee starts, `back` is where it returns
call_readButtonStates(back) ==
    /\ pc' = "rbs_readLeft"
    /\ ret' = back

call_disableSignals(back) ==
    /\ pc' = "ds_for"
    /\ ret' = back
    /\ di' = 0

call_buzzerClick(back) ==
    /\ pc' = "bc_for"
    /\ ret' = back
    /\ bi' = 0

\* mutant: the two single-button branches exchanged
Interpret_swapped(l, r) ==
    IF l = HIGH
    THEN (IF r = HIGH THEN hazards ELSE right)
    ELSE (IF r = HIGH THEN left ELSE off)

\* the mode the two reads give
Interpret(l, r) ==
    IF l = HIGH
    THEN (IF r = HIGH THEN hazards ELSE left)
    ELSE (IF r = HIGH THEN right ELSE off)

\* ------------------------------------------------------- what a step did

Min(a, b) == IF a < b THEN a ELSE b
Max(a, b) == IF a < b THEN b ELSE a

InAt(labels, p, r) == p \in labels \/ (p \in LeafLabels /\ r \in labels)

\* the function of loop()'s callees whose frame is on the stack
In(labels) == InAt(labels, pc, ret)

ChaseLabels == LtsLabels \cup RtsLabels

\* where readButtonStates() returns to: its value is consumed there
SampleRet == {"loop_dispatch", "lts_poll", "rts_poll", "ehl_poll1", "ehl_poll2"}
\* where buzzerClick() returns to
ClickRet == {"lts_start", "rts_start", "ehl_start1", "ehl_start2"}

\* the test of a wait loop, and where its sample returns to
WaitLabels == {"lts_wait", "rts_wait", "ehl_wait1", "ehl_wait2"}
PollLabels == {"lts_poll", "rts_poll", "ehl_poll1", "ehl_poll2"}

\* the signal outputs this step turned on
Activated == {p \in SignalPins : pin[p] = LOW /\ pin'[p] = HIGH}

SignalsUnchanged == \A p \in SignalPins : pin'[p] = pin[p]

InputsChanged ==
    \/ pin'[leftButtonPin] # pin[leftButtonPin]
    \/ pin'[rightButtonPin] # pin[rightButtonPin]

CallRbs == pc \notin RbsLabels /\ pc' = "rbs_readLeft"
CallBc == pc \notin BcLabels /\ pc' = "bc_for"
CallDs == pc \notin DsLabels /\ pc' = "ds_for"
RetDs == pc \in DsLabels /\ pc' \notin DsLabels
RetBc == pc \in BcLabels /\ pc' \notin BcLabels

AllOff == \A p \in SignalPins : pin[p] = LOW
AllOn == \A p \in SignalPins : pin[p] = HIGH
Level == IF AllOff THEN "off" ELSE IF AllOn THEN "on" ELSE "mixed"

LeftPins == {leftSignalPins[s] : s \in 1..num_signal_lights}
RightPins == {rightSignalPins[s] : s \in 1..num_signal_lights}
LeftOff == \A p \in LeftPins : pin[p] = LOW
RightOff == \A p \in RightPins : pin[p] = LOW

\* the slot a signal pin drives
SlotOf(p) ==
    CHOOSE s \in Slots : leftSignalPins[s + 1] = p \/ rightSignalPins[s + 1] = p

\* the truth table of the two buttons (asserted = HIGH)
TruthTable(l, r) ==
    CASE l = HIGH /\ r = HIGH -> hazards
      [] l = HIGH /\ r = LOW -> left
      [] l = LOW /\ r = HIGH -> right
      [] l = LOW /\ r = LOW -> off

\* the mode the buttons select at this instant
Selected == TruthTable(pin[leftButtonPin], pin[rightButtonPin])

\* the history variables after a step of the sketch or of the wearer
ObserveHistory ==
    LET chase == InAt(ChaseLabels, pc', ret')
        own == IF InAt(LtsLabels, pc', ret') THEN left ELSE right
        hz == InAt(EhlLabels, pc', ret')
        fresh == ~chase \/ InputsChanged
    IN  /\ stableIn' = IF CallRbs THEN TRUE
                       ELSE IF pc \in SampleRet /\ pc' # pc THEN TRUE
                       ELSE IF InputsChanged /\ pc \in RbsLabels \cup SampleRet
                       THEN FALSE
                       ELSE stableIn
        /\ lastPin' = IF ~chase THEN 0
                      ELSE IF Activated # {} THEN CHOOSE p \in Activated : TRUE
                      ELSE lastPin
        /\ blanked' = IF ~chase \/ Activated # {} THEN FALSE
                      ELSE IF RetDs THEN TRUE
                      ELSE blanked
        /\ away' = IF ~chase THEN FALSE
                   ELSE IF InputsChanged
                   THEN TruthTable(pin'[leftButtonPin], pin'[rightButtonPin]) # own
                   ELSE away
        /\ aActs' = IF fresh \/ ~away THEN 0
                    ELSE Min(CountCap, aActs + Cardinality(Activated))
        /\ aClicks' = IF fresh \/ ~away THEN 0
                      ELSE Min(CountCap, aClicks + (IF CallBc THEN 1 ELSE 0))
        /\ aSamples' = IF fresh \/ ~away THEN 0
                       ELSE Min(CountCap, aSamples + (IF CallRbs THEN 1 ELSE 0))
        /\ hzSeen' = IF ~hz THEN "none"
                     ELSE IF CallRbs THEN Level
                     ELSE hzSeen
        /\ hzClicks' = IF ~hz \/ CallRbs THEN 0
                       ELSE Min(CountCap, hzClicks + (IF CallBc THEN 1 ELSE 0))
        /\ pairs' = IF CallBc THEN 0
                    ELSE IF pin[buzzerPin] = HIGH /\ pin'[buzzerPin] = LOW
                    THEN Min(click_cycles + 1, pairs + 1)
                    ELSE pairs
        /\ nActs' = IF script = "free" THEN 0
                    ELSE nActs + Cardinality(Activated)
        /\ nClicks' = IF script = "free" THEN 0
                      ELSE nClicks + (IF CallBc THEN 1 ELSE 0)
        /\ waited' = IF ~InAt(WaitLabels \cup PollLabels, pc', ret') THEN 0
                     ELSE Min(interval + CountCap,
                              waited + ((now' - now) % millisMod))
        /\ owed' = IF ~chase THEN 0
                   ELSE Max(0 - CountCap,
                            Min(CountCap, owed + Cardinality(Activated))
                            - (IF CallBc THEN 1 ELSE 0))
        /\ dBlank' = IF pc = "loop_dispatch" /\ pc' # pc THEN FALSE
                     ELSE IF RetDs THEN TRUE
                     ELSE dBlank
        /\ sampled' = IF ~(chase \/ hz) THEN FALSE
                      ELSE IF CallRbs THEN TRUE
                      ELSE sampled
        \* every mode selected since the call; once the mode to return has
        \* been computed only that one need be remembered
        /\ seenModes' =
              LET seen == IF CallRbs THEN {Selected}
                          ELSE seenModes \cup {TruthTable(pin'[leftButtonPin],
                                                          pin'[rightButtonPin])}
              IN  IF CallRbs \/ pc' \in {"rbs_readLeft", "rbs_readRight"}
                  THEN seen
                  ELSE IF pc' = "rbs_delay" THEN seen \cap {state'}
                  ELSE IF pc \in SampleRet /\ pc' = pc THEN seenModes
                  ELSE IF pc = "rbs_delay" THEN seenModes
                  ELSE {}

\* a step of the sketch, or of the wearer when no scenario is scripted
Observe ==
    /\ ObserveHistory
    /\ UNCHANGED script

\* ----------------------------------------------------------------- setup()

\* After setup(): every output is LOW (the reset state of the port
\* registers), no button is pressed yet, loop() is about to run.
InitProgram ==
    /\ pc = "loop_sample"
    /\ ret = "loop_sample"
    /\ pin = [p \in Pins |-> LOW]
    /\ now = 0
    /\ selection = off
    /\ state = off
    /\ leftRead = LOW
    /\ left_turn = FALSE
    /\ right_turn = FALSE
    /\ hazard_lights = FALSE
    /\ i = 0
    /\ start_time = 0
    /\ di = 0
    /\ bi = 0

InitHistory ==
    /\ stableIn = TRUE
    /\ lastPin = 0
    /\ blanked = FALSE
    /\ away = FALSE
    /\ aActs = 0
    /\ aClicks = 0
    /\ aSamples = 0
    /\ hzSeen = "none"
    /\ hzClicks = 0
    /\ pairs = 0
    /\ nActs = 0
    /\ nClicks = 0
    /\ waited = 0
    /\ owed = 0
    /\ dBlank = TRUE
    /\ sampled = FALSE
    /\ seenModes = {}

Init ==
    /\ InitProgram
    /\ InitHistory
    /\ interval = IntervalBound
    /\ millisMod = 2 ^ MillisBits
    /\ script = "free"

\* -------------------------------------------------------------------- loop()

\* blinkerstate selection = readButtonStates();
loop_sample ==
    /\ pc = "loop_sample"
    /\ call_readButtonStates("loop_dispatch")
    /\ UNCHANGED <<pin, now, interval, millisMod, selection, state, leftRead,
                   left_turn, right_turn, hazard_lights, i, start_time, di, bi>>
    /\ Observe

\* mutant: the left and right branches call each other's animator
Dispatch_swapped(sel) ==
    IF sel = left THEN "rts_while"
    ELSE IF sel = right THEN "lts_while"
    ELSE IF sel = hazards THEN "ehl_while"
    ELSE "ds_for"

\* the if / else if chain on `selection`
Dispatch(sel) ==
    IF sel = left THEN "lts_while"
    ELSE IF sel = right THEN "rts_while"
    ELSE IF sel = hazards THEN "ehl_while"
    ELSE "ds_for"

loop_dispatch ==
    /\ pc = "loop_dispatch"
    /\ selection' = state
    /\ pc' = Dispatch(state)
    /\ ret' = "loop_end"
    /\ di' = 0
    \* the callee's first statement: bool left_turn = true; (and the like)
    /\ left_turn' = (pc' = "lts_while")
    /\ right_turn' = (pc' = "rts_while")
    /\ hazard_lights' = (pc' = "ehl_while")
    /\ UNCHANGED <<pin, now, interval, millisMod, state, leftRead, i,
                   start_time, bi>>
    /\ Observe

\* loop() returns and the Arduino core calls it again
loop_end ==
    /\ pc = "loop_end"
    /\ pc' = "loop_sample"
    /\ UNCHANGED <<ret, pin, now, interval, millisMod, selection, state,
                   leftRead, left_turn, right_turn, hazard_lights, i,
                   start_time, di, bi>>
    /\ Observe

\* -------------------------------------------------------- readButtonStates()

\* if (digitalRead(leftButtonPin) == HIGH)
rbs_readLeft ==
    /\ pc = "rbs_readLeft"
    /\ leftRead' = digitalRead(leftButtonPin)
    /\ pc' = "rbs_readRight"
    /\ UNCHANGED <<ret, pin, now, interval, millisMod, selection, state,
                   left_turn, right_turn, hazard_lights, i, start_time, di, bi>>
    /\ Observe

\* the digitalRead(rightButtonPin) of whichever branch was taken
rbs_readRight ==
    /\ pc = "rbs_readRight"
    /\ state' = Interpret(leftRead, digitalRead(rightButtonPin))
    /\ leftRead' = LOW
    /\ pc' = "rbs_delay"
    /\ UNCHANGED <<ret, pin, now, interval, millisMod, selection,
                   left_turn, right_turn, hazard_lights, i, start_time, di, bi>>
    /\ Observe

\* delay(1); return state;
rbs_delay ==
    /\ pc = "rbs_delay"
    /\ delay(1)
    /\ pc' = ret
    /\ UNCHANGED <<ret, pin, interval, millisMod, selection, state, leftRead,
                   left_turn, right_turn, hazard_lights, i, start_time, di, bi>>
    /\ Observe

readButtonStates == rbs_readLeft \/ rbs_readRight \/ rbs_delay

\* ---------------------------------------------------------- disableSignals()

\* for (int i = 0; i < num_signal_lights; i++)
ds_for ==
    /\ pc = "ds_for"
    /\ IF di < num_signal_lights
       THEN /\ pc' = "ds_left"
            /\ UNCHANGED di
       ELSE /\ pc' = ret
            /\ di' = 0
    /\ UNCHANGED <<ret, pin, now, interval, millisMod, selection, state,
                   leftRead, left_turn, right_turn, hazard_lights, i,
                   start_time, bi>>
    /\ Observe

\* digitalWrite(leftSignalPins[i], LOW);
ds_left ==
    /\ pc = "ds_left"
    /\ digitalWrite(leftSignalPins[di + 1], LOW)
    /\ pc' = "ds_right"
    /\ UNCHANGED <<ret, now, interval, millisMod, selection, state, leftRead,
                   left_turn, right_turn, hazard_lights, i, start_time, di, bi>>
    /\ Observe

\* mutant: the second write of the loop body names the left bank again
ds_right_copied ==
    /\ pc = "ds_right"
    /\ digitalWrite(leftSignalPins[di + 1], LOW)
    /\ di' = di + 1
    /\ pc' = "ds_for"
    /\ UNCHANGED <<ret, now, interval, millisMod, selection, state, leftRead,
                   left_turn, right_turn, hazard_lights, i, start_time, bi>>
    /\ Observe

\* digitalWrite(rightSignalPins[i], LOW); i++
ds_right ==
    /\ pc = "ds_right"
    /\ digitalWrite(rightSignalPins[di + 1], LOW)
    /\ di' = di + 1
    /\ pc' = "ds_for"
    /\ UNCHANGED <<ret, now, interval, millisMod, selection, state, leftRead,
                   left_turn, right_turn, hazard_lights, i, start_time, bi>>
    /\ Observe

disableSignals == ds_for \/ ds_left \/ ds_right

\* ------------------------------------------------------------- buzzerClick()

\* mutant: the loop bound is one short
bc_for_short ==
    /\ pc = "bc_for"
    /\ IF bi < click_cycles - 1
       THEN /\ pc' = "bc_high"
            /\ UNCHANGED bi
       ELSE /\ pc' = ret
            /\ bi' = 0
    /\ UNCHANGED <<ret, pin, now, interval, millisMod, selection, state,
                   leftRead, left_turn, right_turn, hazard_lights, i,
                   start_time, di>>
    /\ Observe

\* for (int i = 0; i < 8; i++)
bc_for ==
    /\ pc = "bc_for"
    /\ IF bi < click_cycles
       THEN /\ pc' = "bc_high"
            /\ UNCHANGED bi
       ELSE /\ pc' = ret
            /\ bi' = 0
    /\ UNCHANGED <<ret, pin, now, interval, millisMod, selection, state,
                   leftRead, left_turn, right_turn, hazard_lights, i,
                   start_time, di>>
    /\ Observe

\* digitalWrite(buzzerPin, HIGH);
bc_high ==
    /\ pc = "bc_high"
    /\ digitalWrite(buzzerPin, HIGH)
    /\ pc' = "bc_delay1"
    /\ UNCHANGED <<ret, now, interval, millisMod, selection, state, leftRead,
                   left_turn, right_turn, hazard_lights, i, start_time, di, bi>>
    /\ Observe

\* delayMicroseconds(128);
bc_delay1 ==
    /\ pc = "bc_delay1"
    /\ delayMicroseconds(click_half_us, 2 * bi)
    /\ pc' = "bc_low"
    /\ UNCHANGED <<ret, pin, interval, millisMod, selection, state, leftRead,
                   left_turn, right_turn, hazard_lights, i, start_time, di, bi>>
    /\ Observe

\* digitalWrite(buzzerPin, LOW);
bc_low ==
    /\ pc = "bc_low"
    /\ digitalWrite(buzzerPin, LOW)
    /\ pc' = "bc_delay2"
    /\ UNCHANGED <<ret, now, interval, millisMod, selection, state, leftRead,
                   left_turn, right_turn, hazard_lights, i, start_time, di, bi>>
    /\ Observe

\* delayMicroseconds(128); i++
bc_delay2 ==
    /\ pc = "bc_delay2"
    /\ delayMicroseconds(click_half_us, 2 * bi + 1)
    /\ bi' = bi + 1
    /\ pc' = "bc_for"
    /\ UNCHANGED <<ret, pin, interval, millisMod, selection, state, leftRead,
                   left_turn, right_turn, hazard_lights, i, start_time, di>>
    /\ Observe

buzzerClick == bc_for \/ bc_high \/ bc_delay1 \/ bc_low \/ bc_delay2

\* ---------------------------------------------------------- leftTurnSignal()

\* mutant: the chase starts without blanking the outputs
lts_while_noblank ==
    /\ pc = "lts_while"
    /\ IF left_turn
       THEN /\ pc' = "lts_for"
            /\ i' = 0
            /\ UNCHANGED <<ret, di, start_time>>
       ELSE /\ pc' = "loop_end"
            /\ i' = 0
            /\ start_time' = 0
            /\ UNCHANGED <<ret, di>>
    /\ UNCHANGED <<pin, now, interval, millisMod, selection, state, leftRead,
                   left_turn, right_turn, hazard_lights, bi>>
    /\ Observe

\* mutant: a cancelled chase blanks the outputs before it returns
lts_while_blanks ==
    /\ pc = "lts_while"
    /\ IF left_turn
       THEN /\ call_disableSignals("lts_for")
            /\ i' = 0
            /\ UNCHANGED start_time
       ELSE /\ call_disableSignals("loop_end")
            /\ i' = 0
            /\ start_time' = 0
    /\ UNCHANGED <<pin, now, interval, millisMod, selection, state, leftRead,
                   left_turn, right_turn, hazard_lights, bi>>
    /\ Observe

\* while (left_turn) { disableSignals(); for (int i = 0; ...
lts_while ==
    /\ pc = "lts_while"
    /\ IF left_turn
       THEN /\ call_disableSignals("lts_for")
            /\ i' = 0
            /\ UNCHANGED start_time
       ELSE /\ pc' = "loop_end"
            /\ i' = 0
            /\ start_time' = 0
            /\ UNCHANGED <<ret, di>>
    /\ UNCHANGED <<pin, now, interval, millisMod, selection, state, leftRead,
                   left_turn, right_turn, hazard_lights, bi>>
    /\ Observe

\* mutant: the for loop does not test the flag
lts_for_nocancel ==
    /\ pc = "lts_for"
    /\ pc' = IF i < num_signal_lights THEN "lts_write" ELSE "lts_while"
    /\ UNCHANGED <<ret, pin, now, interval, millisMod, selection, state,
                   leftRead, left_turn, right_turn, hazard_lights, i,
                   start_time, di, bi>>
    /\ Observe

\* i < num_signal_lights && left_turn
lts_for ==
    /\ pc = "lts_for"
    /\ pc' = IF i < num_signal_lights /\ left_turn THEN "lts_write"
             ELSE "lts_while"
    /\ UNCHANGED <<ret, pin, now, interval, millisMod, selection, state,
                   leftRead, left_turn, right_turn, hazard_lights, i,
                   start_time, di, bi>>
    /\ Observe

\* mutant: lighting a slot turns the slot before it off
lts_write_single ==
    /\ pc = "lts_write"
    /\ pin' = [p \in Pins |->
                 IF p = leftSignalPins[i + 1] THEN HIGH
                 ELSE IF i > 0 /\ p = leftSignalPins[i] THEN LOW
                 ELSE pin[p]]
    /\ pc' = "lts_click"
    /\ UNCHANGED <<ret, now, interval, millisMod, selection, state, leftRead,
                   left_turn, right_turn, hazard_lights, i, start_time, di, bi>>
    /\ Observe

\* mutant: the bank is walked from its last pin to its first
lts_write_reversed ==
    /\ pc = "lts_write"
    /\ digitalWrite(leftSignalPins[num_signal_lights - i], HIGH)
    /\ pc' = "lts_click"
    /\ UNCHANGED <<ret, now, interval, millisMod, selection, state, leftRead,
                   left_turn, right_turn, hazard_lights, i, start_time, di, bi>>
    /\ Observe

\* digitalWrite(leftSignalPins[i], HIGH);
lts_write ==
    /\ pc = "lts_write"
    /\ digitalWrite(leftSignalPins[i + 1], HIGH)
    /\ pc' = "lts_click"
    /\ UNCHANGED <<ret, now, interval, millisMod, selection, state, leftRead,
                   left_turn, right_turn, hazard_lights, i, start_time, di, bi>>
    /\ Observe

\* mutant: the slot is lit without a click
lts_click_missing ==
    /\ pc = "lts_click"
    /\ pc' = "lts_start"
    /\ UNCHANGED <<ret, bi, pin, now, interval, millisMod, selection, state,
                   leftRead, left_turn, right_turn, hazard_lights, i,
                   start_time, di>>
    /\ Observe

\* buzzerClick();
lts_click ==
    /\ pc = "lts_click"
    /\ call_buzzerClick("lts_start")
    /\ UNCHANGED <<pin, now, interval, millisMod, selection, state, leftRead,
                   left_turn, right_turn, hazard_lights, i, start_time, di>>
    /\ Observe

\* mutant: start_time is not taken anew for each slot
lts_start_stale ==
    /\ pc = "lts_start"
    /\ pc' = "lts_wait"
    /\ UNCHANGED <<ret, pin, now, interval, millisMod, selection, state,
                   leftRead, left_turn, right_turn, hazard_lights, i,
                   start_time, di, bi>>
    /\ Observe

\* long unsigned int start_time = millis();
lts_start ==
    /\ pc = "lts_start"
    /\ start_time' = now
    /\ pc' = "lts_wait"
    /\ UNCHANGED <<ret, pin, now, interval, millisMod, selection, state,
                   leftRead, left_turn, right_turn, hazard_lights, i, di, bi>>
    /\ Observe

\* mutant: the for loop has no i++, the chase never leaves slot 0
lts_wait_stuck ==
    /\ pc = "lts_wait"
    /\ IF Elapsed < interval /\ left_turn
       THEN /\ call_readButtonStates("lts_poll")
            /\ UNCHANGED i
       ELSE /\ pc' = IF left_turn THEN "lts_write" ELSE "lts_for"
            /\ UNCHANGED <<i, ret>>
    /\ UNCHANGED <<pin, now, interval, millisMod, selection, state, leftRead,
                   left_turn, right_turn, hazard_lights, start_time, di, bi>>
    /\ Observe

\* mutant: the wait compares with <= and lasts one sample too long
lts_wait_late ==
    /\ pc = "lts_wait"
    /\ IF Elapsed <= interval /\ left_turn
       THEN /\ call_readButtonStates("lts_poll")
            /\ UNCHANGED i
       ELSE /\ pc' = "lts_for"
            /\ i' = i + 1
            /\ UNCHANGED ret
    /\ UNCHANGED <<pin, now, interval, millisMod, selection, state, leftRead,
                   left_turn, right_turn, hazard_lights, start_time, di, bi>>
    /\ Observe

\* while (millis() - start_time < interval && left_turn) readButtonStates() ...
\* and, when the wait is over, the i++ of the for loop
lts_wait ==
    /\ pc = "lts_wait"
    /\ IF Elapsed < interval /\ left_turn
       THEN /\ call_readButtonStates("lts_poll")
            /\ UNCHANGED i
       ELSE /\ pc' = "lts_for"
            /\ i' = i + 1
            /\ UNCHANGED ret
    /\ UNCHANGED <<pin, now, interval, millisMod, selection, state, leftRead,
                   left_turn, right_turn, hazard_lights, start_time, di, bi>>
    /\ Observe

\* readButtonStates() == left ? left_turn = true : left_turn = false;
lts_poll ==
    /\ pc = "lts_poll"
    /\ left_turn' = (state = left)
    /\ pc' = "lts_wait"
    /\ UNCHANGED <<ret, pin, now, interval, millisMod, selection, state,
                   leftRead, right_turn, hazard_lights, i, start_time, di, bi>>
    /\ Observe

leftTurnSignal ==
    \/ lts_while \/ lts_for \/ lts_write \/ lts_click
    \/ lts_start \/ lts_wait \/ lts_poll

\* --------------------------------------------------------- rightTurnSignal()

\* while (right_turn) { disableSignals(); for (int i = 0; ...
rts_while ==
    /\ pc = "rts_while"
    /\ IF right_turn
       THEN /\ call_disableSignals("rts_for")
            /\ i' = 0
            /\ UNCHANGED start_time
       ELSE /\ pc' = "loop_end"
            /\ i' = 0
            /\ start_time' = 0
            /\ UNCHANGED <<ret, di>>
    /\ UNCHANGED <<pin, now, interval, millisMod, selection, state, leftRead,
                   left_turn, right_turn, hazard_lights, bi>>
    /\ Observe

\* i < num_signal_lights && right_turn
rts_for ==
    /\ pc = "rts_for"
    /\ pc' = IF i < num_signal_lights /\ right_turn THEN "rts_write"
             ELSE "rts_while"
    /\ UNCHANGED <<ret, pin, now, interval, millisMod, selection, state,
                   leftRead, left_turn, right_turn, hazard_lights, i,
                   start_time, di, bi>>
    /\ Observe

\* mutant: the copy of leftTurnSignal() still names the left bank
rts_write_copied ==
    /\ pc = "rts_write"
    /\ digitalWrite(leftSignalPins[i + 1], HIGH)
    /\ pc' = "rts_click"
    /\ UNCHANGED <<ret, now, interval, millisMod, selection, state, leftRead,
                   left_turn, right_turn, hazard_lights, i, start_time, di, bi>>
    /\ Observe

\* digitalWrite(rightSignalPins[i], HIGH);
rts_write ==
    /\ pc = "rts_write"
    /\ digitalWrite(rightSignalPins[i + 1], HIGH)
    /\ pc' = "rts_click"
    /\ UNCHANGED <<ret, now, interval, millisMod, selection, state, leftRead,
                   left_turn, right_turn, hazard_lights, i, start_time, di, bi>>
    /\ Observe

\* buzzerClick();
rts_click ==
    /\ pc = "rts_click"
    /\ call_buzzerClick("rts_start")
    /\ UNCHANGED <<pin, now, interval, millisMod, selection, state, leftRead,
                   left_turn, right_turn, hazard_lights, i, start_time, di>>
    /\ Observe

\* long unsigned int start_time = millis();
rts_start ==
    /\ pc = "rts_start"
    /\ start_time' = now
    /\ pc' = "rts_wait"
    /\ UNCHANGED <<ret, pin, now, interval, millisMod, selection, state,
                   leftRead, left_turn, right_turn, hazard_lights, i, di, bi>>
    /\ Observe

\* while (millis() - start_time < interval && right_turn) readButtonStates() ...
\* and, when the wait is over, the i++ of the for loop
rts_wait ==
    /\ pc = "rts_wait"
    /\ IF Elapsed < interval /\ right_turn
       THEN /\ call_readButtonStates("rts_poll")
            /\ UNCHANGED i
       ELSE /\ pc' = "rts_for"
            /\ i' = i + 1
            /\ UNCHANGED ret
    /\ UNCHANGED <<pin, now, interval, millisMod, selection, state, leftRead,
                   left_turn, right_turn, hazard_lights, start_time, di, bi>>
    /\ Observe

\* readButtonStates() == right ? right_turn = true : right_turn = false;
rts_poll ==
    /\ pc = "rts_poll"
    /\ right_turn' = (state = right)
    /\ pc' = "rts_wait"
    /\ UNCHANGED <<ret, pin, now, interval, millisMod, selection, state,
                   leftRead, left_turn, hazard_lights, i, start_time, di, bi>>
    /\ Observe

rightTurnSignal ==
    \/ rts_while \/ rts_for \/ rts_write \/ rts_click
    \/ rts_start \/ rts_wait \/ rts_poll

\* ------------------------------------------------------ engageHazardLights()

\* while (hazard_lights) { disableSignals();
ehl_while ==
    /\ pc = "ehl_while"
    /\ IF hazard_lights
       THEN /\ call_disableSignals("ehl_click1")
            /\ UNCHANGED <<i, start_time>>
       ELSE /\ pc' = "loop_end"
            /\ i' = 0
            /\ start_time' = 0
            /\ UNCHANGED <<ret, di>>
    /\ UNCHANGED <<pin, now, interval, millisMod, selection, state, leftRead,
                   left_turn, right_turn, hazard_lights, bi>>
    /\ Observe

\* mutant: the all-off phase has no click
ehl_click1_missing ==
    /\ pc = "ehl_click1"
    /\ pc' = "ehl_start1"
    /\ UNCHANGED <<ret, bi, pin, now, interval, millisMod, selection, state,
                   leftRead, left_turn, right_turn, hazard_lights, i,
                   start_time, di>>
    /\ Observe

\* buzzerClick(); (the click of the all-off phase)
ehl_click1 ==
    /\ pc = "ehl_click1"
    /\ call_buzzerClick("ehl_start1")
    /\ UNCHANGED <<pin, now, interval, millisMod, selection, state, leftRead,
                   left_turn, right_turn, hazard_lights, i, start_time, di>>
    /\ Observe

\* long unsigned int start_time = millis();
ehl_start1 ==
    /\ pc = "ehl_start1"
    /\ start_time' = now
    /\ pc' = "ehl_wait1"
    /\ UNCHANGED <<ret, pin, now, interval, millisMod, selection, state,
                   leftRead, left_turn, right_turn, hazard_lights, i, di, bi>>
    /\ Observe

\* while (millis() - start_time < interval && hazard_lights) readButtonStates() ...
\* and, when the wait is over, the int i = 0 of the for loop that follows
ehl_wait1 ==
    /\ pc = "ehl_wait1"
    /\ IF Elapsed < interval /\ hazard_lights
       THEN /\ call_readButtonStates("ehl_poll1")
            /\ UNCHANGED i
       ELSE /\ pc' = "ehl_on_for"
            /\ i' = 0
            /\ UNCHANGED ret
    /\ UNCHANGED <<pin, now, interval, millisMod, selection, state, leftRead,
                   left_turn, right_turn, hazard_lights, start_time, di, bi>>
    /\ Observe

\* readButtonStates() == hazards ? hazard_lights = true : hazard_lights = false;
ehl_poll1 ==
    /\ pc = "ehl_poll1"
    /\ hazard_lights' = (state = hazards)
    /\ pc' = "ehl_wait1"
    /\ UNCHANGED <<ret, pin, now, interval, millisMod, selection, state,
                   leftRead, left_turn, right_turn, i, start_time, di, bi>>
    /\ Observe

\* mutant: the loop bound is one short
ehl_on_for_short ==
    /\ pc = "ehl_on_for"
    /\ pc' = IF i < num_signal_lights - 1 THEN "ehl_on_left" ELSE "ehl_click2"
    /\ UNCHANGED <<ret, pin, now, interval, millisMod, selection, state,
                   leftRead, left_turn, right_turn, hazard_lights, i,
                   start_time, di, bi>>
    /\ Observe

\* for (int i = 0; i < num_signal_lights; i++)
ehl_on_for ==
    /\ pc = "ehl_on_for"
    /\ pc' = IF i < num_signal_lights THEN "ehl_on_left" ELSE "ehl_click2"
    /\ UNCHANGED <<ret, pin, now, interval, millisMod, selection, state,
                   leftRead, left_turn, right_turn, hazard_lights, i,
                   start_time, di, bi>>
    /\ Observe

\* digitalWrite(leftSignalPins[i], HIGH);
ehl_on_left ==
    /\ pc = "ehl_on_left"
    /\ digitalWrite(leftSignalPins[i + 1], HIGH)
    /\ pc' = "ehl_on_right"
    /\ UNCHANGED <<ret, now, interval, millisMod, selection, state, leftRead,
                   left_turn, right_turn, hazard_lights, i, start_time, di, bi>>
    /\ Observe

\* digitalWrite(rightSignalPins[i], HIGH); i++
ehl_on_right ==
    /\ pc = "ehl_on_right"
    /\ digitalWrite(rightSignalPins[i + 1], HIGH)
    /\ i' = i + 1
    /\ pc' = "ehl_on_for"
    /\ UNCHANGED <<ret, now, interval, millisMod, selection, state, leftRead,
                   left_turn, right_turn, hazard_lights, start_time, di, bi>>
    /\ Observe

\* buzzerClick(); (the click of the all-on phase)
ehl_click2 ==
    /\ pc = "ehl_click2"
    /\ call_buzzerClick("ehl_start2")
    /\ UNCHANGED <<pin, now, interval, millisMod, selection, state, leftRead,
                   left_turn, right_turn, hazard_lights, i, start_time, di>>
    /\ Observe

\* start_time = millis();
ehl_start2 ==
    /\ pc = "ehl_start2"
    /\ start_time' = now
    /\ pc' = "ehl_wait2"
    /\ UNCHANGED <<ret, pin, now, interval, millisMod, selection, state,
                   leftRead, left_turn, right_turn, hazard_lights, i, di, bi>>
    /\ Observe

\* while (millis() - start_time < interval && hazard_lights) readButtonStates() ...
ehl_wait2 ==
    /\ pc = "ehl_wait2"
    /\ IF Elapsed < interval /\ hazard_lights
       THEN call_readButtonStates("ehl_poll2")
       ELSE /\ pc' = "ehl_while"
            /\ UNCHANGED ret
    /\ UNCHANGED <<pin, now, interval, millisMod, selection, state, leftRead,
                   left_turn, right_turn, hazard_lights, i, start_time, di, bi>>
    /\ Observe

\* readButtonStates() == hazards ? hazard_lights = true : hazard_lights = false;
ehl_poll2 ==
    /\ pc = "ehl_poll2"
    /\ hazard_lights' = (state = hazards)
    /\ pc' = "ehl_wait2"
    /\ UNCHANGED <<ret, pin, now, interval, millisMod, selection, state,
                   leftRead, left_turn, right_turn, i, start_time, di, bi>>
    /\ Observe

engageHazardLights ==
    \/ ehl_while \/ ehl_click1 \/ ehl_start1 \/ ehl_wait1 \/ ehl_poll1
    \/ ehl_on_for \/ ehl_on_left \/ ehl_on_right
    \/ ehl_click2 \/ ehl_start2 \/ ehl_wait2 \/ ehl_poll2

\* ------------------------------------------------------------ the environment

\* the wearer moves one switch or both
ButtonChange ==
    /\ script = "free"
    /\ \E l \in {LOW, HIGH}, r \in {LOW, HIGH} :
          /\ <<l, r>> # <<pin[leftButtonPin], pin[rightButtonPin]>>
          /\ pin' = [pin EXCEPT ![leftButtonPin] = l, ![rightButtonPin] = r]
    /\ UNCHANGED <<pc, ret, now, interval, millisMod, selection, state,
                   leftRead, left_turn, right_turn, hazard_lights, i,
                   start_time, di, bi>>
    /\ Observe

Next ==
    \/ loop_sample \/ loop_dispatch \/ loop_end
    \/ readButtonStates
    \/ disableSignals
    \/ buzzerClick
    \/ leftTurnSignal
    \/ rightTurnSignal
    \/ engageHazardLights
    \/ ButtonChange

Spec == Init /\ [][Next]_vars

\* The processor never halts: whenever the sketch has a next step it is
\* eventually taken (every delay returns, so millis() keeps advancing). The
\* wearer is under no obligation to move a button.
Sketch ==
    \/ loop_sample \/ loop_dispatch \/ loop_end
    \/ readButtonStates
    \/ disableSignals
    \/ buzzerClick
    \/ leftTurnSignal
    \/ rightTurnSignal
    \/ engageHazardLights

SpecFair == Spec /\ WF_vars(Sketch)

\* ------------------------------------------------------ the scripted scenario

\* The sketch as written (interval = 500), the buttons moved by the script.
InitScenario ==
    /\ InitProgram
    /\ InitHistory
    /\ interval = interval_ms
    /\ millisMod = 2 ^ ScenarioBits
    /\ script = "boot"

\* the left button is pressed BootMs after boot
ScenarioPress ==
    /\ script = "boot"
    /\ now = BootMs
    /\ pin' = [pin EXCEPT ![leftButtonPin] = HIGH]
    /\ script' = "held"
    /\ UNCHANGED <<pc, ret, now, interval, millisMod, selection, state,
                   leftRead, left_turn, right_turn, hazard_lights, i,
                   start_time, di, bi>>
    /\ ObserveHistory

\* and released HoldMs later
ScenarioRelease ==
    /\ script = "held"
    /\ now = BootMs + HoldMs
    /\ pin' = [pin EXCEPT ![leftButtonPin] = LOW]
    /\ script' = "released"
    /\ UNCHANGED <<pc, ret, now, interval, millisMod, selection, state,
                   leftRead, left_turn, right_turn, hazard_lights, i,
                   start_time, di, bi>>
    /\ ObserveHistory

NextScenario ==
    \/ loop_sample \/ loop_dispatch \/ loop_end
    \/ readButtonStates
    \/ disableSignals
    \/ buzzerClick
    \/ leftTurnSignal
    \/ ScenarioPress
    \/ ScenarioRelease

SpecScenario == InitScenario /\ [][NextScenario]_vars

\* ------------------------------------------------------------------ claims

\* C1: a sample during which the buttons did not move returns the mode of
\* the truth table: (F,F) off, (T,F) left, (F,T) right, (T,T) hazards; and no
\* sample returns anything but one of these four modes.
C1_TruthTable ==
    /\ state \in blinkerstate
    /\ (pc \in SampleRet /\ stableIn) => state = Selected

C1_Witness ==
    /\ pc \in SampleRet
    /\ stableIn
    /\ pin[leftButtonPin] = HIGH
    /\ pin[rightButtonPin] = HIGH
    /\ state = hazards

\* the slot a chase has to activate next: 0 first, and 0 again after N-1
NextSlot ==
    IF lastPin = 0 THEN 0 ELSE (SlotOf(lastPin) + 1) % num_signal_lights

\* C2: within one run of the Left (Right) animator every activation turns on
\* exactly one output, of the animator's own bank, and it is slot 0 first,
\* then the slot after the one activated last; slot 0 follows slot N-1 only
\* after disableSignals() has blanked the outputs, and no blank comes between
\* slot i and slot i+1.
C2_ChaseOrder ==
    [][ /\ (pc = "lts_write" /\ pc' # pc) =>
              /\ Activated = {leftSignalPins[NextSlot + 1]}
              /\ blanked <=> NextSlot = 0
        /\ (pc = "rts_write" /\ pc' # pc) =>
              /\ Activated = {rightSignalPins[NextSlot + 1]}
              /\ blanked <=> NextSlot = 0
        /\ (In(ChaseLabels) /\ Activated # {}) => pc \in {"lts_write", "rts_write"}
      ]_vars

\* a whole pass is over, the outputs are blanked, slot 0 is about to light again
C2_Witness ==
    /\ pc = "lts_write"
    /\ left_turn
    /\ i = 0
    /\ lastPin = leftSignalPins[num_signal_lights]
    /\ blanked
    /\ AllOff

\* C3 as stated: from the dispatch to Left until the Left animator returns
\* the right bank is inactive in every state (and the left bank throughout a
\* Right animation).
C3_Original ==
    /\ In(LtsLabels) => RightOff
    /\ In(RtsLabels) => LeftOff

\* C3 amended: once the animator's first disableSignals() has returned, the
\* opposite bank is inactive in every state until the animator returns; and
\* at no time does the animator turn on an output of the opposite bank.
C3_OppositeBankOff ==
    /\ [](In(LtsLabels) /\ (blanked \/ lastPin # 0) => RightOff)
    /\ [](In(RtsLabels) /\ (blanked \/ lastPin # 0) => LeftOff)
    /\ [][ /\ In(LtsLabels) => Activated \cap RightPins = {}
           /\ In(RtsLabels) => Activated \cap LeftPins = {} ]_vars

\* a Right chase under way, its second slot lit, the left bank dark
C3_Witness ==
    /\ In(RtsLabels)
    /\ lastPin = rightSignalPins[2]
    /\ pin[rightSignalPins[2]] = HIGH
    /\ LeftOff

\* C4 as stated: after the buttons have moved away from the animator's mode
\* (and stay where they are) no further slot is activated and no further
\* click is issued, and at most one further sample is taken.
C4_Original ==
    away => aActs = 0 /\ aClicks = 0 /\ aSamples <= 1

\* C4 amended: once a sample has returned another mode (the flag is false)
\* the animator activates nothing, clicks nothing and samples nothing more
\* before it returns; after the buttons have moved to another mode and
\* stopped there, at most one more slot is activated, at most one more click
\* begun and at most one more sample begun.
C4_CancelLatency ==
    /\ [](away => aActs <= 1 /\ aClicks <= 1 /\ aSamples <= 1)
    /\ [][ /\ (In(LtsLabels) /\ ~left_turn) =>
                 (Activated = {} /\ ~CallBc /\ ~CallRbs /\ ~CallDs)
           /\ (In(RtsLabels) /\ ~right_turn) =>
                 (Activated = {} /\ ~CallBc /\ ~CallRbs /\ ~CallDs) ]_vars

\* the late case: the buttons moved as a wait ran out, one more slot lit and
\* clicked, and the sample that notices has been taken
C4_Witness ==
    /\ away
    /\ aActs = 1
    /\ aClicks = 1
    /\ aSamples = 1
    /\ pc = "lts_wait"
    /\ ~left_turn

\* C5: in the hazards animator every sample sees the 2N signal outputs all
\* LOW or all HIGH; between two samples there is no click (same phase, same
\* outputs) or exactly one (next phase, the outputs inverted), the first
\* phase being all-off; and a wait that ends with hazards still selected
\* ends when exactly `interval` ms have passed.
C5_HazardPhases ==
    /\ [](In(EhlLabels) /\ pc \in RbsLabels => Level \in {"off", "on"})
    /\ [][ /\ (CallRbs /\ In(EhlLabels)) =>
                 /\ Level \in {"off", "on"}
                 /\ hzClicks = 0 => Level = hzSeen
                 /\ hzClicks # 0 =>
                      /\ hzClicks = 1
                      /\ Level # hzSeen
                      /\ hzSeen = "none" => Level = "off"
           /\ (/\ pc \in {"ehl_wait1", "ehl_wait2"}
               /\ pc' \notin {pc, "rbs_readLeft"}
               /\ hazard_lights) =>
                 (Elapsed >= interval /\ Elapsed < interval + 1) ]_vars

\* the second all-off phase: the last sample saw all outputs on, one click since
C5_Witness ==
    /\ pc = "ehl_wait1"
    /\ hazard_lights
    /\ hzSeen = "on"
    /\ hzClicks = 1
    /\ AllOff

\* C6: once a sample taken inside engageHazardLights() has returned another
\* mode (hazard_lights is false), the animator writes no signal output and
\* begins no click before it returns.
C6_CancelStops ==
    [][ (In(EhlLabels) /\ ~hazard_lights) =>
            (SignalsUnchanged /\ ~CallBc) ]_vars

\* C7 as stated: nothing lit and no click for the first 2 s; 8 activations
\* and 8 clicks by the time the button is released; all outputs inactive one
\* debounce period (1 ms) after the release.
C7_Original ==
    /\ script = "boot" => (AllOff /\ nActs = 0 /\ nClicks = 0)
    /\ script = "released" => (nActs = 8 /\ nClicks = 8)
    /\ (script = "released" /\ now >= BootMs + HoldMs + 1) => AllOff

\* C7 amended: nothing lit and no click for the first 2 s; with interval =
\* 500 ms the 2.1 s of Left give one full chase cycle and slot 0 of the next:
\* 5 activations and 5 clicks, and none after the release; all outputs are
\* inactive once millis() is 4 ms past the release.
C7_Scenario ==
    /\ script = "boot" => (AllOff /\ nActs = 0 /\ nClicks = 0)
    /\ script = "held" => (nActs <= 5 /\ nClicks <= 5 /\ RightOff)
    /\ script = "released" => (nActs = 5 /\ nClicks = 5 /\ RightOff)
    /\ (script = "released" /\ now >= BootMs + HoldMs + 4) => AllOff

C7_Witness ==
    /\ script = "released"
    /\ now = BootMs + HoldMs + SettleMs
    /\ nActs = 5
    /\ nClicks = 5
    /\ AllOff
    /\ pc = "loop_end"

\* C8: an animator runs only for the mode the dispatcher sampled last, the
\* dispatcher goes from its sample to exactly the matching callee, the Off
\* path is one disableSignals() with no activation and no click, and after
\* the callee returns the dispatcher samples again.
C8_Dispatch ==
    /\ [](In(LtsLabels) => selection = left)
    /\ [](In(RtsLabels) => selection = right)
    /\ [](In(EhlLabels) => selection = hazards)
    /\ [](pc \in DsLabels /\ ret = "loop_end" => selection = off)
    /\ [][ /\ (pc = "loop_dispatch" /\ pc' # pc) =>
                 /\ selection' = state
                 /\ state = left => pc' = "lts_while"
                 /\ state = right => pc' = "rts_while"
                 /\ state = hazards => pc' = "ehl_while"
                 /\ state = off => CallDs
           /\ (In(LoopLabels) /\ pc # "loop_dispatch") =>
                 (Activated = {} /\ ~CallBc /\ ~CallDs)
           /\ (pc = "loop_end" /\ pc' # pc) => pc' = "loop_sample"
           /\ (pc = "loop_sample" /\ pc' # pc) => CallRbs ]_vars

C8_Witness ==
    /\ pc = "rts_write"
    /\ selection = right
    /\ i = 1

\* C9: when disableSignals() returns every signal output of both banks is
\* inactive, whatever was lit when it was called; run on outputs that are
\* all inactive already it leaves them so at every step; and it never changes
\* the buzzer output.
C9_DisableSignals ==
    [][ /\ RetDs => \A p \in SignalPins : pin'[p] = LOW
        /\ (pc \in DsLabels /\ AllOff) => \A p \in SignalPins : pin'[p] = LOW
        /\ pc \in DsLabels => pin'[buzzerPin] = pin[buzzerPin] ]_vars

\* called with both banks lit (a cancelled hazards phase), the last pair of
\* outputs still to clear
C9_Witness ==
    /\ pc = "ds_left"
    /\ di = num_signal_lights - 1
    /\ pin[leftSignalPins[num_signal_lights]] = HIGH
    /\ pin[rightSignalPins[num_signal_lights]] = HIGH

\* C10: the buzzer is LOW in every state outside a click; a click that has
\* returned has made exactly 8 HIGH-to-LOW pairs, the pair count following the
\* loop index; and during a click no sample is begun and no signal output
\* is written.
C10_BuzzerClick ==
    /\ [](pc \notin BcLabels => pin[buzzerPin] = LOW)
    /\ [](pc \in ClickRet => pairs = 8)
    /\ [](pc = "bc_for" => (pairs = bi /\ pin[buzzerPin] = LOW))
    /\ [][ (pc \in BcLabels) =>
              (SignalsUnchanged /\ ~CallRbs /\ ~CallDs) ]_vars

C10_Witness ==
    /\ pc = "ehl_start2"
    /\ pairs = 8
    /\ pin[buzzerPin] = LOW

\* the outputs of a bank that are lit
LitLeft == {p \in LeftPins : pin[p] = HIGH}
LitRight == {p \in RightPins : pin[p] = HIGH}

\* the first pins of a bank, up to and including pin p
UpTo(bank, p) == {bank[s + 1] : s \in 0..SlotOf(p)}

\* C11 as stated: once the animator has blanked the outputs, at most one
\* slot of the animated bank is active in every state of the animation.
C11_Original ==
    /\ (In(LtsLabels) /\ (blanked \/ lastPin # 0)) => Cardinality(LitLeft) <= 1
    /\ (In(RtsLabels) /\ (blanked \/ lastPin # 0)) => Cardinality(LitRight) <= 1

\* C11 amended: the chase fills the bank: between two blankings the active
\* slots of the animated bank are exactly slot 0 up to the slot activated
\* last, so slot i is still active when slot i+1 is activated, and all N are
\* active during the last interval of a pass.
C11_ChaseFills ==
    /\ (In(LtsLabels) /\ lastPin # 0 /\ ~blanked /\ pc \notin DsLabels) =>
           LitLeft = UpTo(leftSignalPins, lastPin)
    /\ (In(RtsLabels) /\ lastPin # 0 /\ ~blanked /\ pc \notin DsLabels) =>
           LitRight = UpTo(rightSignalPins, lastPin)
    /\ (In(ChaseLabels) /\ blanked) => AllOff

\* the last interval of a pass: the sample sees the whole left bank lit
C11_Witness ==
    /\ pc = "rbs_readLeft"
    /\ ret = "lts_poll"
    /\ lastPin = leftSignalPins[num_signal_lights]
    /\ LitLeft = LeftPins

\* the flag of the animator in progress is still true
HeldFlag ==
    \/ In(LtsLabels) /\ left_turn
    \/ In(RtsLabels) /\ right_turn
    \/ In(EhlLabels) /\ hazard_lights

\* a wait loop is left
WaitEnds == pc \in WaitLabels /\ pc' \notin {pc, "rbs_readLeft"}

\* C12: a wait that is not cancelled ends only when `interval` ms of millis()
\* time have passed since it began, and at the first test at which they have:
\* no sample is begun once they have passed, so the wait overshoots by less
\* than one sample period (1 ms).
C12_WaitLength ==
    [][ /\ (WaitEnds /\ HeldFlag) =>
              (waited >= interval /\ waited < interval + 1)
        /\ (pc \in WaitLabels /\ waited >= interval) => ~CallRbs ]_vars

\* the third slot of a Left chase has been lit for a whole interval
C12_Witness ==
    /\ pc = "lts_wait"
    /\ left_turn
    /\ i = 2
    /\ waited = interval
    /\ pin[leftSignalPins[3]] = HIGH

\* C13: in a Left or Right animation every slot activation is followed by
\* exactly one click before any sample is taken, and there is no other click:
\* a step activates one slot and only when every earlier activation has had
\* its click, a click is begun only when one activation is waiting for it,
\* and at every sample the animator has clicked once per activation.
C13_ClickPerActivation ==
    [][ In(ChaseLabels) =>
          /\ (Activated # {}) => (owed = 0 /\ Cardinality(Activated) = 1)
          /\ CallBc => owed = 1
          /\ CallRbs => owed = 0
          /\ owed \in {0, 1} ]_vars

\* the second slot of a Left chase is lit and has had its click; the first
\* sample of its wait is about to be taken
C13_Witness ==
    /\ pc = "lts_wait"
    /\ left_turn
    /\ i = 1
    /\ waited = 0
    /\ owed = 0
    /\ lastPin = leftSignalPins[2]

\* a Left or Right animator returns to loop()
ChaseReturns == pc \in {"lts_while", "rts_while"} /\ pc' = "loop_end"

\* C14: a cancelled Left or Right animator returns without a final blanking
\* pass: from the cancelling sample on it calls no disableSignals() and
\* writes no signal output, and when it returns the slot it activated last is
\* still active.
C14_NoFinalBlank ==
    [][ /\ (In(ChaseLabels) /\ ~HeldFlag) => (~CallDs /\ SignalsUnchanged)
        /\ ChaseReturns =>
              (lastPin # 0 /\ ~blanked /\ pin'[lastPin] = HIGH) ]_vars

\* a Left chase cancelled in its second slot has returned: that slot is still
\* lit while loop() is about to sample again
C14_Witness ==
    /\ pc = "loop_end"
    /\ selection = left
    /\ pin[leftSignalPins[2]] = HIGH
    /\ pin[leftSignalPins[3]] = LOW

\* the hazards animator returns to loop()
HazardsReturns == pc = "ehl_while" /\ pc' = "loop_end"

\* C15: a cancelled hazards animator returns in the state of the phase in
\* which the cancelling sample was taken: the outputs are all inactive if
\* that sample began in the all-off phase, all active if it began in the
\* all-on phase.
C15_ExitInPhase ==
    [][ HazardsReturns => (Level = hzSeen /\ SignalsUnchanged) ]_vars

\* the mode an animator in progress was dispatched for
OwnMode ==
    IF In(LtsLabels) THEN left ELSE IF In(RtsLabels) THEN right ELSE hazards

AnimLabels == ChaseLabels \cup EhlLabels

\* C16 (safety half): an animator returns only with its flag cleared, and
\* the flag is cleared only by one of the animator's own in-wait samples that
\* returned another mode; a sample that returned its own mode keeps it set.
C16_ReturnsOnlyCancelled ==
    [][ /\ (ChaseReturns \/ HazardsReturns) => ~HeldFlag
        /\ (In(AnimLabels) /\ HeldFlag /\ ~HeldFlag') =>
              (pc \in PollLabels /\ state # OwnMode)
        /\ (pc \in PollLabels /\ state = OwnMode) => HeldFlag' ]_vars

\* C16 (liveness half): an animator that never returns blanks the outputs
\* and activates every slot of its bank infinitely often; the hazards
\* animator is infinitely often in its all-off wait and in its all-on wait.
C16_KeepsAnimating ==
    /\ <>[]In(LtsLabels) =>
          /\ []<>(pc = "ds_for" /\ ret = "lts_for")
          /\ \A s \in Slots :
                []<>(pc = "lts_click" /\ i = s /\ pin[leftSignalPins[s + 1]] = HIGH)
    /\ <>[]In(RtsLabels) =>
          /\ []<>(pc = "ds_for" /\ ret = "rts_for")
          /\ \A s \in Slots :
                []<>(pc = "rts_click" /\ i = s /\ pin[rightSignalPins[s + 1]] = HIGH)
    /\ <>[]In(EhlLabels) =>
          /\ []<>(pc = "ehl_wait1" /\ AllOff)
          /\ []<>(pc = "ehl_wait2" /\ AllOn)

\* C16: each animator runs exactly as long as its mode is sampled.
C16_RunsWhileSampled == C16_ReturnsOnlyCancelled /\ C16_KeepsAnimating

\* a Left chase that was never cancelled has lit its whole bank, blanked it
\* and is about to light slot 0 again
C16_Witness ==
    /\ pc = "lts_write"
    /\ i = 0
    /\ left_turn
    /\ blanked
    /\ lastPin = leftSignalPins[num_signal_lights]

WhileLabels == {"lts_while", "rts_while", "ehl_while"}

\* C17: every dispatched action begins with the all-off action. The dispatch
\* either calls disableSignals() or enters an animator whose first step is
\* that call; until that call has returned no signal output is activated,
\* and when it returns every signal output is inactive; loop() itself
\* activates nothing between the return of one action and the next dispatch.
C17_BlankFirst ==
    [][ /\ (pc = "loop_dispatch" /\ pc' # pc) =>
              (~dBlank' /\ (CallDs \/ pc' \in WhileLabels))
        /\ (pc \in WhileLabels /\ ~dBlank /\ pc' # pc) => CallDs
        /\ ~dBlank => Activated = {}
        /\ (~dBlank /\ dBlank') => AllOff'
        /\ In(LoopLabels) => Activated = {} ]_vars

\* Left has just been dispatched while a light of a cancelled Right chase is
\* still on: the animator's first step is blanking it
C17_Witness ==
    /\ pc = "ds_for"
    /\ ret = "lts_for"
    /\ ~dBlank
    /\ pin[rightSignalPins[2]] = HIGH

\* millis() has wrapped to 0 since start_time was taken
Wrapped == now < start_time

\* C18: the interval wait is correct across the overflow of millis(). In
\* every state of a wait the elapsed time the code computes,
\* (millis() - start_time) mod 2^w, is the time that has really passed since
\* the wait began, wrapped or not, and it never exceeds interval; a wait
\* that wrapped and was not cancelled ends when exactly interval ms have
\* passed, and does not end before.
C18_Overflow ==
    /\ [](In(WaitLabels \cup PollLabels) =>
             (Elapsed = waited /\ waited <= interval))
    /\ [][ (WaitEnds /\ HeldFlag /\ Wrapped) => waited = interval ]_vars
    /\ [][ (pc \in WaitLabels /\ HeldFlag /\ Wrapped /\ waited < interval
            /\ pc' # pc) => CallRbs ]_vars

\* a Left wait begun before millis() wrapped has lasted interval ms and is
\* about to end
C18_Witness ==
    /\ pc = "lts_wait"
    /\ left_turn
    /\ Wrapped
    /\ waited = interval
    /\ Elapsed = interval

\* the first sample of the animator call in progress is begun
FirstSample == In(AnimLabels) /\ ~sampled /\ CallRbs

\* C19: an animator takes its first output step without sampling the inputs
\* again. When a Left or Right animator begins its first sample it has
\* blanked all outputs, activated slot 0 of its bank and nothing else, and
\* clicked once for it; when the hazards animator begins its first sample it
\* has blanked all outputs and clicked once. Until then the flag set by the
\* dispatch stays true whatever the buttons do, and no animator returns
\* without having sampled.
C19_FirstStepUnsampled ==
    [][ /\ (FirstSample /\ In(LtsLabels)) =>
              (dBlank /\ LitLeft = {leftSignalPins[1]} /\ RightOff
               /\ lastPin = leftSignalPins[1] /\ owed = 0 /\ pc = "lts_wait")
        /\ (FirstSample /\ In(RtsLabels)) =>
              (dBlank /\ LitRight = {rightSignalPins[1]} /\ LeftOff
               /\ lastPin = rightSignalPins[1] /\ owed = 0 /\ pc = "rts_wait")
        /\ (FirstSample /\ In(EhlLabels)) =>
              (dBlank /\ AllOff /\ hzClicks = 1 /\ pc = "ehl_wait1")
        /\ (In(AnimLabels) /\ ~sampled) => HeldFlag
        /\ (ChaseReturns \/ HazardsReturns) => sampled ]_vars

\* both buttons were released right after the dispatch to Left: slot 0 has
\* been lit and clicked for all the same, and the first sample is still to come
C19_Witness ==
    /\ pc = "lts_wait"
    /\ ~sampled
    /\ Selected = off
    /\ LitLeft = {leftSignalPins[1]}
    /\ owed = 0

\* C20: the mode a sample returns is the truth-table mode of a combination
\* of the two buttons that held at some instant during the call of
\* readButtonStates().
C20_ConsistentSample ==
    pc \in SampleRet => state \in seenModes

====
